---- MODULE Spec2Model ----
(***************************************************************************)
(* Model of app.py: a polling monitor that fetches 5-minute candles for a  *)
(* list of tickers, detects a >= 10% spike candle followed by a red        *)
(* ("death") candle, and posts SPIKE / ENTRY alerts to a Discord webhook,  *)
(* deduplicated by the in-memory maps alerted_spikes and alerted_deaths.   *)
(*                                                                         *)
(* Numbers.  Prices are integers in mills (1/1000 dollar).  A float is a   *)
(* record [kind, num, den]: kind "num" is the exact rational num/den with  *)
(* den > 0, kind "nan" is NaN, kind "inf" is +infinity.  A value printed   *)
(* with the format .2f is an integer count of hundredths.                  *)
(***************************************************************************)
EXTENDS Integers, Sequences, FiniteSets, TLC

VARIABLES
    pc,              \* position of main_loop
    webhook,         \* WEBHOOK_URL is set
    i,               \* index of the for loop over STOCKS
    alerted_spikes,  \* dict: spike key -> current_time
    alerted_deaths,  \* dict: death key -> current_time
    attempts,        \* history: calls of requests.post per <<kind, ticker, candle time>>
    evaluated,       \* history: the tickers evaluated in the current cycle, in order
    cycle,           \* outcome of the cycle under way or just finished
    sleeping,        \* argument of the time.sleep call under way, in milliseconds
    ev,              \* history: the last call of check_spike_and_death_candle
    raw,             \* what yf.download gave the last call of get_5min_candles
    df,              \* what that call of get_5min_candles returned
    now,             \* the clock reading given to get_market_status
    market_open      \* what get_market_status returned

vars == <<pc, webhook, i, alerted_spikes, alerted_deaths, attempts, evaluated,
          cycle, sleeping, ev, raw, df, now, market_open>>

(***************************************************************************)
(* Bounds of the model.                                                    *)
(***************************************************************************)
MaxTime == 3     \* candle timestamps are 1..MaxTime
MaxLen == 3      \* a fetched day holds at most MaxLen candles (main loop)
MaxCount == 2    \* the attempts history saturates here
MaxFetch == 22   \* a fetched day holds at most MaxFetch candles (rolling mean)

(***************************************************************************)
(* Program constants.                                                      *)
(***************************************************************************)
SPIKE_THRESHOLD == 10
ROLLING_WINDOW == 20
LIMIT == 100
COLOR_SPIKE == 16711680
COLOR_ENTRY == 65280
PACE_MS == 500
CYCLE_SLEEP_MS == 300000
RECOVERY_SLEEP_MS == 60000
WEEKEND == 5
OPEN_HOUR == 9
OPEN_MINUTE == 30
CLOSE_HOUR == 16

STOCKS == <<"FFIE", "TSLA">>

Tickers == {STOCKS[k] : k \in 1..Len(STOCKS)}
Times == 1..MaxTime
Kinds == {"SPIKE", "ENTRY"}

(***************************************************************************)
(* Floats.                                                                 *)
(***************************************************************************)
Num(n, d) == [kind |-> "num", num |-> n, den |-> d]
NaN == [kind |-> "nan", num |-> 0, den |-> 1]
Inf == [kind |-> "inf", num |-> 0, den |-> 1]

\* x / y for a float x >= 0 or NaN and y >= 0 or NaN, as numpy divides
FDiv(x, y) ==
    IF x.kind = "nan" \/ y.kind = "nan" THEN NaN
    ELSE IF y.num = 0 THEN (IF x.num = 0 THEN NaN ELSE Inf)
    ELSE Num(x.num * y.den, x.den * y.num)

\* x >= c for a float x and an integer c; every comparison with NaN is false
FGe(x, c) ==
    \/ x.kind = "inf"
    \/ x.kind = "num" /\ x.num >= c * x.den

\* n/d (d > 0) rounded to the nearest integer, ties to even
RoundHalfEven(n, d) ==
    LET a == IF n < 0 THEN -n ELSE n
        q == a \div d
        r == a % d
        up == 2 * r > d \/ (2 * r = d /\ q % 2 = 1)
        m == IF up THEN q + 1 ELSE q
    IN  IF n < 0 THEN -m ELSE m

\* format(x, ".2f"): "nan", "inf", or the number of hundredths shown
Fmt2(x) ==
    IF x.kind = "num"
    THEN [kind |-> "num", val |-> RoundHalfEven(x.num * 100, x.den)]
    ELSE [kind |-> x.kind, val |-> 0]

\* a price in mills as a float number of dollars
Dollars(p) == Num(p, 1000)

\* Timestamp.strftime('%H:%M:%S ET') of the candle that opens 5*(t-1) minutes
\* after 09:30
StrfTime(t) ==
    LET m == OPEN_HOUR * 60 + OPEN_MINUTE + 5 * (t - 1)
    IN  <<m \div 60, m % 60, 0, "ET">>

(***************************************************************************)
(* MarketClock: get_market_status.  A clock reading is the weekday         *)
(* (Monday = 0) and the wall-clock time of day in US/Eastern.              *)
(***************************************************************************)
Nows ==
    [weekday : 0..6, hour : 0..23, minute : {0, 29, 30, 31, 59},
     second : {0, 1, 59}, microsecond : {0, 1, 999999}]

\* the readings the main loop draws from
CycleNows ==
    {n \in Nows : /\ n.weekday \in {2, 5}
                  /\ n.hour \in {8, 12, 17}
                  /\ n.minute = 0 /\ n.second = 0 /\ n.microsecond = 0}

\* datetime.replace(hour, minute, second, microsecond)
Replace(n, h, m, s, us) ==
    [n EXCEPT !.hour = h, !.minute = m, !.second = s, !.microsecond = us]

\* a <= b for two datetimes of the same day and zone
DtLe(a, b) ==
    LET x == <<a.hour, a.minute, a.second, a.microsecond>>
        y == <<b.hour, b.minute, b.second, b.microsecond>>
    IN  \/ x = y
        \/ \E k \in 1..4 : /\ x[k] < y[k]
                           /\ \A j \in 1..(k - 1) : x[j] = y[j]

get_market_status_strict(n) ==
    IF n.weekday >= WEEKEND THEN FALSE
    ELSE LET mo == Replace(n, OPEN_HOUR, OPEN_MINUTE, 0, 0)
             mc == Replace(n, CLOSE_HOUR, 0, 0, 0)
         IN  DtLe(mo, n) /\ DtLe(n, mc) /\ n # mc

get_market_status(n) ==
    IF n.weekday >= WEEKEND THEN FALSE
    ELSE LET market_open_at == Replace(n, OPEN_HOUR, OPEN_MINUTE, 0, 0)
             market_close_at == Replace(n, CLOSE_HOUR, 0, 0, 0)
         IN  DtLe(market_open_at, n) /\ DtLe(n, market_close_at)

(***************************************************************************)
(* AlertSink: send_discord_alert.  The outcome of the post is an input:    *)
(* "ok", or "failed" when requests.post raises (network error) or          *)
(* raise_for_status raises (non-2xx response); both end in the one except  *)
(* clause, which logs.                                                     *)
(***************************************************************************)
SendOutcomes == {"ok", "failed"}

send_discord_alert_raising(outcome) ==
    [posted |-> TRUE, delivered |-> outcome = "ok", raised |-> outcome # "ok"]

send_discord_alert(outcome) ==
    [posted |-> TRUE, delivered |-> outcome = "ok", raised |-> FALSE]

(***************************************************************************)
(* CandleSource: get_5min_candles.  What yf.download gives is an input:    *)
(* [exc, bars], exc when the download raises, bars the day's candles in    *)
(* index order, each [ts, Open, High, Close, Volume].                      *)
(***************************************************************************)
None == [none |-> TRUE, rows |-> <<>>]
Frame(rows) == [none |-> FALSE, rows |-> rows]

RECURSIVE SumVolume(_, _, _)
SumVolume(bars, lo, hi) ==
    IF lo > hi THEN 0 ELSE bars[lo].Volume + SumVolume(bars, lo + 1, hi)

\* Series.rolling(w).mean() at row k, over the w rows before row k
RollingMeanPrior(bars, k, w) ==
    IF k <= w THEN NaN ELSE Num(SumVolume(bars, k - w, k - 1), w)

\* Series.rolling(w).mean() at row k: the mean of rows k-w+1..k, NaN when
\* fewer than w rows end at k
RollingMean(bars, k, w) ==
    IF k < w THEN NaN ELSE Num(SumVolume(bars, k - w + 1, k), w)

candle_move_pct(bar) == Num((bar.Close - bar.Open) * 100, bar.Open)

\* DataFrame.tail(n)
TailRows(rows, n) ==
    IF Len(rows) <= n THEN rows ELSE SubSeq(rows, Len(rows) - n + 1, Len(rows))

WithIndicators(bars) ==
    [k \in 1..Len(bars) |->
        LET avg == RollingMean(bars, k, ROLLING_WINDOW)
        IN  [ts |-> bars[k].ts, Open |-> bars[k].Open, High |-> bars[k].High,
             Close |-> bars[k].Close, Volume |-> bars[k].Volume,
             volume_avg_20 |-> avg,
             volume_ratio |-> FDiv(Num(bars[k].Volume, 1), avg),
             candle_move_pct |-> candle_move_pct(bars[k])]]

get_5min_candles(fetched) ==
    IF fetched.exc THEN None
    ELSE IF Len(fetched.bars) = 0 THEN None
    ELSE Frame(TailRows(WithIndicators(fetched.bars), LIMIT))

(***************************************************************************)
(* PatternDetector: check_spike_and_death_candle.                          *)
(***************************************************************************)
EmptyDict == [k \in {} |-> 0]

\* f"{ticker}_{time}"
Key(ticker, t) == ticker \o "_" \o ToString(t)

\* d[key] = value, left out
SetItem_forgotten(d, key, value) == d

\* d[key] = value
SetItem(d, key, value) ==
    [k \in DOMAIN d \cup {key} |-> IF k = key THEN value ELSE d[k]]

\* the guard on the window, then the last two rows; a one-row window is let
\* through and its row read twice
LastTwo_one_row(d) ==
    IF d.none \/ Len(d.rows) < 1
    THEN [ok |-> FALSE, prev |-> NaN, current |-> NaN]
    ELSE [ok |-> TRUE,
          prev |-> d.rows[IF Len(d.rows) > 1 THEN Len(d.rows) - 1 ELSE 1],
          current |-> d.rows[Len(d.rows)]]

\* df is None or len(df) < 2, then df.iloc[-2] and df.iloc[-1]
LastTwo(d) ==
    IF d.none \/ Len(d.rows) < 2
    THEN [ok |-> FALSE, prev |-> NaN, current |-> NaN]
    ELSE [ok |-> TRUE,
          prev |-> d.rows[Len(d.rows) - 1],
          current |-> d.rows[Len(d.rows)]]

\* spike_move > 10.0
IsSpike_exclusive(spike_move) ==
    spike_move.kind = "inf"
    \/ (spike_move.kind = "num" /\ spike_move.num > SPIKE_THRESHOLD * spike_move.den)

\* spike_move >= 10.0
IsSpike(spike_move) == FGe(spike_move, SPIKE_THRESHOLD)

is_death_candle(candle) == candle.Close < candle.Open

\* the death-candle test taken out of the spike branch
DeathCheckRuns_dedented(spike, death) == death

\* "if is_death_candle" is nested in "if spike_move >= 10.0"
DeathCheckRuns(spike, death) == spike /\ death

\* risk against the high of the day instead of the close
risk_pct_of_high(hod_price, close) == Num((hod_price - close) * 100, hod_price)

\* ((hod_price - close) / close) * 100, for prices in mills
risk_pct(hod_price, close) == Num((hod_price - close) * 100, close)

SpikeAlert(ticker, prev_candle) ==
    [title |-> <<"SPIKE ALERT", ticker>>,
     color |-> COLOR_SPIKE,
     spike |-> Fmt2(prev_candle.candle_move_pct),
     volume_ratio |-> Fmt2(prev_candle.volume_ratio),
     price |-> Fmt2(Dollars(prev_candle.Close)),
     time |-> StrfTime(prev_candle.ts)]

EntryAlert(ticker, prev_candle, current_candle) ==
    LET hod_price == prev_candle.High
    IN  [title |-> <<"ENTRY SIGNAL", ticker>>,
         color |-> COLOR_ENTRY,
         entry |-> Fmt2(Dollars(current_candle.Open)),
         stop |-> Fmt2(Dollars(hod_price)),
         risk |-> Fmt2(risk_pct(hod_price, current_candle.Close)),
         time |-> StrfTime(current_candle.ts)]

\* one call of send_discord_alert: the alert, whether the webhook took it, and
\* the <<kind, ticker, candle time>> it is about
Attempt(alert, sent, about) ==
    [alert |-> alert, delivered |-> sent.delivered, about |-> about]

\* The whole call.  o1 and o2 are the outcomes of the first and second post.
\* An exception raised in the body ends it in the handler at the end, which
\* logs and returns; nothing escapes.
check_spike_and_death_candle(ticker, fetched, o1, o2, spikes, deaths) ==
    LET d == get_5min_candles(fetched)
        w == LastTwo(d)
    IN  IF ~w.ok
        THEN [df |-> d, alerts |-> <<>>, spikes |-> spikes, deaths |-> deaths,
              escaped |-> FALSE]
        ELSE
        LET prev_candle == w.prev
            current_candle == w.current
            current_time == current_candle.ts
            prev_time == prev_candle.ts
            spike == IsSpike(prev_candle.candle_move_pct)
            death == is_death_candle(current_candle)
            spike_key == Key(ticker, prev_time)
            sendSpike == spike /\ spike_key \notin DOMAIN spikes
            s1 == send_discord_alert(o1)
            a1 == IF sendSpike
                  THEN <<Attempt(SpikeAlert(ticker, prev_candle), s1,
                                 <<"SPIKE", ticker, prev_time>>)>>
                  ELSE <<>>
            raised1 == sendSpike /\ s1.raised
            spikes1 == IF sendSpike /\ ~raised1
                       THEN SetItem(spikes, spike_key, current_time)
                       ELSE spikes
            death_key == Key(ticker, current_time)
            sendEntry == /\ ~raised1
                         /\ DeathCheckRuns(spike, death)
                         /\ death_key \notin DOMAIN deaths
            s2 == send_discord_alert(o2)
            a2 == IF sendEntry
                  THEN <<Attempt(EntryAlert(ticker, prev_candle, current_candle), s2,
                                 <<"ENTRY", ticker, current_time>>)>>
                  ELSE <<>>
            raised2 == sendEntry /\ s2.raised
            deaths1 == IF sendEntry /\ ~raised2
                       THEN SetItem(deaths, death_key, current_time)
                       ELSE deaths
        IN  [df |-> d, alerts |-> a1 \o a2, spikes |-> spikes1, deaths |-> deaths1,
             escaped |-> FALSE]

(***************************************************************************)
(* The candles the main loop is given.  A day is a run of consecutive      *)
(* 5-minute candles.  Its last candle is red or green, the one before it   *)
(* is at, just under or over the threshold, or red; the older ones are     *)
(* spike candles, which the detector must leave alone.                     *)
(***************************************************************************)
Shape(o, h, c) == [Open |-> o, High |-> h, Close |-> c]

Spike10 == Shape(10000, 11200, 11000)       \* +10.0% exactly
Near10 == Shape(100000, 110000, 109999)     \* +9.999%
Spike15 == Shape(10000, 12000, 11500)       \* +15.0%, high 12.00
Red == Shape(10000, 10100, 9500)            \* 10.00 -> 9.50
RedGap == Shape(12507, 12600, 12404)        \* red, above the spike's high

PrevShapes == {Spike10, Near10, Spike15, Red}
CurrentShapes == {Red, RedGap, Spike15}

Bar(t, sh, v) ==
    [ts |-> t, Open |-> sh.Open, High |-> sh.High, Close |-> sh.Close, Volume |-> v]

Day(start, n, p, c) ==
    [k \in 1..n |->
        Bar(start + k - 1,
            IF k = n THEN c ELSE IF k = n - 1 THEN p ELSE Spike15,
            1000)]

Days ==
    {Day(x[1], x[2], x[3], x[4]) :
        x \in {y \in Times \X (0..MaxLen) \X PrevShapes \X CurrentShapes :
                  y[1] + y[2] - 1 <= MaxTime}}

MainFetches ==
    {[exc |-> TRUE, bars |-> <<>>]} \cup {[exc |-> FALSE, bars |-> b] : b \in Days}

(***************************************************************************)
(* MonitorLoop: main_loop.                                                 *)
(***************************************************************************)
NoFetch == [exc |-> FALSE, bars |-> <<>>]
NoEval == [ticker |-> "", alerts |-> <<>>]
NoNow == [weekday |-> 0, hour |-> 0, minute |-> 0, second |-> 0, microsecond |-> 0]

\* the attempts history after the calls of one evaluation
Counted(count, alerts) ==
    [k \in DOMAIN count |->
        LET n == Cardinality({j \in 1..Len(alerts) : alerts[j].about = k})
        IN  IF count[k] + n > MaxCount THEN MaxCount ELSE count[k] + n]

Init ==
    /\ pc = "start"
    /\ webhook \in BOOLEAN
    /\ i = 1
    /\ alerted_spikes = EmptyDict
    /\ alerted_deaths = EmptyDict
    /\ attempts = [k \in Kinds \X Tickers \X Times |-> 0]
    /\ evaluated = <<>>
    /\ cycle = "none"
    /\ sleeping = 0
    /\ ev = NoEval
    /\ raw = NoFetch
    /\ df = None
    /\ now = NoNow
    /\ market_open = FALSE

\* if not WEBHOOK_URL: log and return
ConfigMissing ==
    /\ pc = "start"
    /\ ~webhook
    /\ pc' = "exit"
    /\ UNCHANGED <<webhook, i, alerted_spikes, alerted_deaths, attempts, evaluated,
                   cycle, sleeping, ev, raw, df, now, market_open>>

\* the webhook is set: enter "while True"
Startup ==
    /\ pc = "start"
    /\ webhook
    /\ pc' = "loop"
    /\ UNCHANGED <<webhook, i, alerted_spikes, alerted_deaths, attempts, evaluated,
                   cycle, sleeping, ev, raw, df, now, market_open>>

\* get_market_status() is true: start the for loop over STOCKS
CycleOpen ==
    /\ pc = "loop"
    /\ \E n \in CycleNows : get_market_status(n)
    /\ pc' = "for"
    /\ i' = 1
    /\ evaluated' = <<>>
    /\ cycle' = "open"
    /\ market_open' = TRUE
    /\ UNCHANGED <<webhook, alerted_spikes, alerted_deaths, attempts, sleeping,
                   ev, raw, df, now>>

\* get_market_status() is false: log "Market closed", then time.sleep(300)
CycleClosed ==
    /\ pc = "loop"
    /\ \E n \in CycleNows : ~get_market_status(n)
    /\ pc' = "sleep"
    /\ sleeping' = CYCLE_SLEEP_MS
    /\ evaluated' = <<>>
    /\ cycle' = "closed"
    /\ market_open' = FALSE
    /\ UNCHANGED <<webhook, i, alerted_spikes, alerted_deaths, attempts,
                   ev, raw, df, now>>

\* the handler of the cycle body returns instead of sleeping
CycleRaise_exits ==
    /\ pc = "loop"
    /\ pc' = "exit"
    /\ cycle' = "raised"
    /\ evaluated' = <<>>
    /\ UNCHANGED <<webhook, i, alerted_spikes, alerted_deaths, attempts, sleeping,
                   ev, raw, df, now, market_open>>

\* the cycle body raises before the for loop (the clock, the logger): the
\* handler logs, then time.sleep(60)
CycleRaise ==
    /\ pc = "loop"
    /\ pc' = "sleep"
    /\ sleeping' = RECOVERY_SLEEP_MS
    /\ cycle' = "raised"
    /\ evaluated' = <<>>
    /\ UNCHANGED <<webhook, i, alerted_spikes, alerted_deaths, attempts,
                   ev, raw, df, now, market_open>>

\* check_spike_and_death_candle(STOCKS[i]); an exception escaping it would end
\* the cycle in the handler of the cycle body
ForStock ==
    /\ pc = "for"
    /\ i <= Len(STOCKS)
    /\ \E f \in MainFetches, o1 \in SendOutcomes, o2 \in SendOutcomes :
          LET r == check_spike_and_death_candle(STOCKS[i], f, o1, o2,
                                                alerted_spikes, alerted_deaths)
          IN  /\ raw' = f
              /\ df' = r.df
              /\ ev' = [ticker |-> STOCKS[i], alerts |-> r.alerts]
              /\ alerted_spikes' = r.spikes
              /\ alerted_deaths' = r.deaths
              /\ attempts' = Counted(attempts, r.alerts)
              /\ evaluated' = Append(evaluated,
                                     [ticker |-> STOCKS[i],
                                      fetch |-> IF f.exc THEN "raised"
                                                ELSE IF r.df.none THEN "empty"
                                                ELSE "data"])
              /\ IF r.escaped
                 THEN pc' = "sleep" /\ sleeping' = RECOVERY_SLEEP_MS /\ cycle' = "raised"
                 ELSE pc' = "pace" /\ sleeping' = PACE_MS /\ cycle' = cycle
    /\ UNCHANGED <<webhook, i, now, market_open>>

\* the for loop stops at the first ticker whose fetch gave nothing
Pace_break ==
    /\ pc = "pace"
    /\ pc' = "for"
    /\ i' = IF df.none THEN Len(STOCKS) + 1 ELSE i + 1
    /\ sleeping' = 0
    /\ ev' = NoEval
    /\ raw' = NoFetch
    /\ df' = None
    /\ UNCHANGED <<webhook, alerted_spikes, alerted_deaths, attempts, evaluated,
                   cycle, now, market_open>>

\* time.sleep(0.5) returns; the for loop goes on to the next ticker.  The
\* locals of the call that returned are gone.
Pace ==
    /\ pc = "pace"
    /\ pc' = "for"
    /\ i' = i + 1
    /\ sleeping' = 0
    /\ ev' = NoEval
    /\ raw' = NoFetch
    /\ df' = None
    /\ UNCHANGED <<webhook, alerted_spikes, alerted_deaths, attempts, evaluated,
                   cycle, now, market_open>>

\* the for loop is exhausted: time.sleep(300)
ForDone ==
    /\ pc = "for"
    /\ i > Len(STOCKS)
    /\ pc' = "sleep"
    /\ sleeping' = CYCLE_SLEEP_MS
    /\ UNCHANGED <<webhook, i, alerted_spikes, alerted_deaths, attempts, evaluated,
                   cycle, ev, raw, df, now, market_open>>

\* time.sleep(300) or time.sleep(60) returns: back to "while True"
Wake ==
    /\ pc = "sleep"
    /\ pc' = "loop"
    /\ sleeping' = 0
    /\ evaluated' = <<>>
    /\ cycle' = "none"
    /\ i' = 1
    /\ UNCHANGED <<webhook, alerted_spikes, alerted_deaths, attempts,
                   ev, raw, df, now, market_open>>

Next ==
    \/ ConfigMissing
    \/ Startup
    \/ CycleOpen
    \/ CycleClosed
    \/ CycleRaise
    \/ ForStock
    \/ Pace
    \/ ForDone
    \/ Wake

Spec == Init /\ [][Next]_vars

\* main_loop is the only thread: whenever it can take a step it does (every
\* call it makes returns)
FairSpec == Spec /\ WF_vars(Next)

(***************************************************************************)
(* get_market_status on its own: the clock reading is drawn in the         *)
(* initial state and the function is applied to it.                        *)
(***************************************************************************)
InitClock ==
    /\ pc = "clock"
    /\ now \in Nows
    /\ market_open = FALSE
    /\ webhook = TRUE
    /\ i = 1
    /\ alerted_spikes = EmptyDict
    /\ alerted_deaths = EmptyDict
    /\ attempts = [k \in Kinds \X Tickers \X Times |-> 0]
    /\ evaluated = <<>>
    /\ cycle = "none"
    /\ sleeping = 0
    /\ ev = NoEval
    /\ raw = NoFetch
    /\ df = None

ReadClock ==
    /\ pc = "clock"
    /\ market_open' = get_market_status(now)
    /\ pc' = "clocked"
    /\ UNCHANGED <<webhook, i, alerted_spikes, alerted_deaths, attempts, evaluated,
                   cycle, sleeping, ev, raw, df, now>>

ClockSpec == InitClock /\ [][ReadClock]_vars

(***************************************************************************)
(* get_5min_candles on its own: the download is drawn in the initial       *)
(* state.  The day's volumes are a up to row p and b after it, so that     *)
(* rolling windows of every mix, all-zero ones included, occur.            *)
(***************************************************************************)
Volumes == {0, 1, 3}
FetchLens == (0..MaxFetch) \cup {LIMIT + 1}

VolumeDay(n, p, a, b) ==
    [k \in 1..n |-> Bar(k, Spike10, IF k <= p THEN a ELSE b)]

RollFetches ==
    {[exc |-> TRUE, bars |-> <<>>]} \cup
    {[exc |-> FALSE, bars |-> VolumeDay(x[1], x[2], x[3], x[4])] :
        x \in {y \in FetchLens \X (0..(LIMIT + 1)) \X Volumes \X Volumes :
                  y[2] <= y[1]}}

InitRoll ==
    /\ pc = "fetch"
    /\ raw \in RollFetches
    /\ df = None
    /\ now = NoNow
    /\ market_open = FALSE
    /\ webhook = TRUE
    /\ i = 1
    /\ alerted_spikes = EmptyDict
    /\ alerted_deaths = EmptyDict
    /\ attempts = [k \in Kinds \X Tickers \X Times |-> 0]
    /\ evaluated = <<>>
    /\ cycle = "none"
    /\ sleeping = 0
    /\ ev = NoEval

Fetch ==
    /\ pc = "fetch"
    /\ df' = get_5min_candles(raw)
    /\ pc' = "fetched"
    /\ UNCHANGED <<webhook, i, alerted_spikes, alerted_deaths, attempts, evaluated,
                   cycle, sleeping, ev, raw, now, market_open>>

RollSpec == InitRoll /\ [][Fetch]_vars

(***************************************************************************)
(* Properties.  In the main loop, pc = "pace" is the state right after a   *)
(* call of check_spike_and_death_candle returned: raw and df are what it   *)
(* fetched, ev.ticker its ticker and ev.alerts the posts it made.          *)
(***************************************************************************)
Abs(x) == IF x < 0 THEN -x ELSE x

Usable(d) == ~d.none /\ Len(d.rows) >= 2
PrevOf(d) == d.rows[Len(d.rows) - 1]
CurrentOf(d) == d.rows[Len(d.rows)]

\* alerts holds a post about <<kind, ticker, t>>
Posted(alerts, kind, ticker, t) ==
    \E j \in 1..Len(alerts) : alerts[j].about = <<kind, ticker, t>>

\* alerts holds a post of this kind
PostedKind(alerts, kind) ==
    \E j \in 1..Len(alerts) : alerts[j].about[1] = kind

\* the step of the for loop that calls check_spike_and_death_candle
Evaluates == pc = "for" /\ i <= Len(STOCKS) /\ pc' # "for"

\* shown is n/d printed with two decimals: it is within 0.005 of n/d
Shown(shown, n, d) ==
    shown.kind = "num" /\ 2 * Abs(shown.val * d - 100 * n) <= d

\* C1: for every (ticker, candle timestamp) pair at most one SPIKE post and at
\* most one ENTRY post is ever made, whatever the windows fetched and whether
\* the posts succeed or fail.
C1_AtMostOneAlertPerCandle ==
    \A k \in DOMAIN attempts : attempts[k] <= 1

\* C1 witness: a window whose spike and death candle were both alerted is
\* evaluated again and nothing is posted.
C1_Witness ==
    /\ pc = "pace"
    /\ Usable(df)
    /\ IsSpike(PrevOf(df).candle_move_pct)
    /\ CurrentOf(df).Close < CurrentOf(df).Open
    /\ attempts[<<"SPIKE", ev.ticker, PrevOf(df).ts>>] = 1
    /\ attempts[<<"ENTRY", ev.ticker, CurrentOf(df).ts>>] = 1
    /\ ev.alerts = <<>>

\* C2: in an open-market cycle the tickers are evaluated once each, in the
\* order of STOCKS; no outcome of an evaluation (download raising, empty or
\* short window) ends the cycle early or sends it to the recovery handler.
C2_EveryTickerEvaluated ==
    /\ Len(evaluated) <= Len(STOCKS)
    /\ \A k \in 1..Len(evaluated) : evaluated[k].ticker = STOCKS[k]
    /\ (pc = "for" => Len(evaluated) = i - 1)
    /\ (pc = "pace" => Len(evaluated) = i)
    /\ (pc = "sleep" /\ cycle = "open" => Len(evaluated) = Len(STOCKS))
    /\ (cycle = "raised" => evaluated = <<>>)

\* C2 witness: the cycle is over, the download of the first ticker raised and
\* the last ticker was still evaluated, with data.
C2_Witness ==
    /\ pc = "sleep"
    /\ cycle = "open"
    /\ Len(evaluated) = Len(STOCKS)
    /\ evaluated[1].fetch = "raised"
    /\ evaluated[Len(STOCKS)].fetch = "data"

\* C3: in an evaluation of a window of at least two candles whose
\* (ticker, prev timestamp) pair has had no SPIKE post yet, a SPIKE post about
\* that pair is made iff prev.candle_move_pct >= 10.0; no SPIKE post is made
\* about any other pair.
C3_SpikeIffThreshold ==
    [][Evaluates /\ Usable(df') =>
        LET prev == PrevOf(df')
            m == prev.candle_move_pct
            t == ev'.ticker
        IN  /\ attempts[<<"SPIKE", t, prev.ts>>] = 0 =>
                (Posted(ev'.alerts, "SPIKE", t, prev.ts)
                    <=> (m.kind = "num" /\ m.num >= 10 * m.den))
            /\ \A j \in 1..Len(ev'.alerts) :
                  ev'.alerts[j].about[1] = "SPIKE" =>
                      ev'.alerts[j].about = <<"SPIKE", t, prev.ts>>]_vars

\* C3 witness: prev moved by exactly 10.0% and the SPIKE post was made.
C3_Witness ==
    /\ pc = "pace"
    /\ Usable(df)
    /\ PrevOf(df).candle_move_pct.num = 10 * PrevOf(df).candle_move_pct.den
    /\ Posted(ev.alerts, "SPIKE", ev.ticker, PrevOf(df).ts)

\* C4: every ENTRY post shows entry = current.Open, stop = prev.High and
\* risk = (prev.High - current.Close) / current.Close * 100, each to two
\* decimals; for prev.High = 12.00, current.Open = 10.00, current.Close = 9.50
\* it shows 10.00, 12.00 and 26.32.
C4_EntryFields ==
    pc = "pace" /\ Usable(df) =>
        \A j \in 1..Len(ev.alerts) :
            ev.alerts[j].about[1] = "ENTRY" =>
                LET a == ev.alerts[j].alert
                    prev == PrevOf(df)
                    cur == CurrentOf(df)
                IN  /\ Shown(a.entry, cur.Open, 1000)
                    /\ Shown(a.stop, prev.High, 1000)
                    /\ Shown(a.risk, (prev.High - cur.Close) * 100, cur.Close)
                    /\ (prev.High = 12000 /\ cur.Open = 10000 /\ cur.Close = 9500
                           => a.entry.val = 1000 /\ a.stop.val = 1200
                              /\ a.risk.val = 2632)

\* C4 witness: the ENTRY post of the example: a +15.0% candle with high 12.00,
\* then a candle from 10.00 to 9.50.
C4_Witness ==
    /\ pc = "pace"
    /\ Usable(df)
    /\ PrevOf(df).candle_move_pct.num = 15 * PrevOf(df).candle_move_pct.den
    /\ PrevOf(df).High = 12000
    /\ CurrentOf(df).Open = 10000
    /\ CurrentOf(df).Close = 9500
    /\ \E j \in 1..Len(ev.alerts) :
          /\ ev.alerts[j].about[1] = "ENTRY"
          /\ ev.alerts[j].alert.risk = [kind |-> "num", val |-> 2632]

\* C5: get_market_status is false on Saturday and Sunday at any time, and on
\* Monday to Friday true iff 09:30:00 <= time of day <= 16:00:00.
C5_MarketHours ==
    pc = "clocked" =>
        (market_open <=>
            /\ now.weekday \in 0..4
            /\ \/ now.hour = 9 /\ now.minute >= 30
               \/ now.hour \in 10..15
               \/ now.hour = 16 /\ now.minute = 0 /\ now.second = 0
                  /\ now.microsecond = 0)

\* C5 witness: Wednesday 16:00:00 sharp, found open.
C5_Witness ==
    /\ pc = "clocked"
    /\ now.weekday = 2
    /\ now.hour = 16 /\ now.minute = 0 /\ now.second = 0 /\ now.microsecond = 0
    /\ market_open

\* C6: an evaluation whose window is absent or has fewer than 2 candles posts
\* nothing and leaves both dedup maps as they were.
C6_ShortWindowNoOp ==
    [][Evaluates /\ (df'.none \/ Len(df'.rows) < 2) =>
        /\ ev'.alerts = <<>>
        /\ attempts' = attempts
        /\ alerted_spikes' = alerted_spikes
        /\ alerted_deaths' = alerted_deaths]_vars

\* C6 witness: a window of one candle, itself a spike, evaluated with no post.
C6_Witness ==
    /\ pc = "pace"
    /\ ~df.none
    /\ Len(df.rows) = 1
    /\ IsSpike(df.rows[1].candle_move_pct)
    /\ ev.alerts = <<>>

\* C7: an ENTRY post about (ticker, current timestamp) is made in an
\* evaluation iff, in that evaluation, prev.candle_move_pct >= 10.0 and
\* current.Close < current.Open and the death key is not in alerted_deaths;
\* no ENTRY post is made about any other pair.
C7_EntryIffSpikeAndDeath ==
    [][Evaluates /\ Usable(df') =>
        LET prev == PrevOf(df')
            cur == CurrentOf(df')
            m == prev.candle_move_pct
            t == ev'.ticker
        IN  /\ Posted(ev'.alerts, "ENTRY", t, cur.ts)
                <=> /\ m.kind = "num" /\ m.num >= 10 * m.den
                    /\ cur.Close < cur.Open
                    /\ Key(t, cur.ts) \notin DOMAIN alerted_deaths
            /\ \A j \in 1..Len(ev'.alerts) :
                  ev'.alerts[j].about[1] = "ENTRY" =>
                      ev'.alerts[j].about = <<"ENTRY", t, cur.ts>>]_vars

\* C7 witness: the ENTRY post is made in an evaluation that makes no SPIKE
\* post, the spike key of prev being recorded already.
C7_Witness ==
    /\ pc = "pace"
    /\ Usable(df)
    /\ Posted(ev.alerts, "ENTRY", ev.ticker, CurrentOf(df).ts)
    /\ ~PostedKind(ev.alerts, "SPIKE")
    /\ Key(ev.ticker, PrevOf(df).ts) \in DOMAIN alerted_spikes

\* C8: whatever the outcomes of its posts, an evaluation ends as it would
\* had every post succeeded (same dedup maps, same posts about the same
\* pairs, back in the for loop and not in the recovery handler), and no pair
\* is ever posted about twice.
C8_FailedSendIsDropped ==
    /\ [][Evaluates =>
            LET good == check_spike_and_death_candle(ev'.ticker, raw', "ok", "ok",
                                                     alerted_spikes, alerted_deaths)
            IN  /\ alerted_spikes' = good.spikes
                /\ alerted_deaths' = good.deaths
                /\ Len(ev'.alerts) = Len(good.alerts)
                /\ \A j \in 1..Len(good.alerts) :
                      ev'.alerts[j].about = good.alerts[j].about
                /\ pc' = "pace"]_vars
    /\ [](\A k \in DOMAIN attempts : attempts[k] < 2)

\* C8 witness: the SPIKE post failed, its key is recorded all the same and
\* the ENTRY post was made after it.
C8_Witness ==
    /\ pc = "pace"
    /\ Len(ev.alerts) = 2
    /\ ev.alerts[1].about[1] = "SPIKE"
    /\ ~ev.alerts[1].delivered
    /\ ev.alerts[2].about[1] = "ENTRY"
    /\ Key(ev.ticker, PrevOf(df).ts) \in DOMAIN alerted_spikes

\* C9: with the webhook set main_loop never returns; a cycle that ends
\* normally sleeps 300 s, one whose body raised sleeps 60 s, the step after
\* either sleep begins the next cycle, and cycles begin again and again.
C9_LoopNeverEnds ==
    /\ [](pc = "exit" => ~webhook)
    /\ [](pc = "sleep" =>
            /\ cycle \in {"open", "closed", "raised"}
            /\ sleeping = IF cycle = "raised" THEN 60000 ELSE 300000)
    /\ [][pc = "sleep" => pc' = "loop"]_vars
    /\ []<>(pc = "loop" \/ ~webhook)

\* C9 witness: the cycle body raised and the loop is in its 60 s sleep.
C9_Witness ==
    /\ pc = "sleep"
    /\ cycle = "raised"
    /\ sleeping = 60000
    /\ webhook

\* the row of the download that row j of the returned window is
RowOf(j) == Len(raw.bars) - Len(df.rows) + j

\* C10 as claimed: volume_avg_20 of a candle is the mean volume of the 20
\* candles before it, and a candle with fewer than 20 predecessors in the
\* download carries no average and a NaN volume_ratio.
C10_AsClaimed ==
    pc = "fetched" /\ ~df.none =>
        \A j \in 1..Len(df.rows) :
            LET k == RowOf(j)
                r == df.rows[j]
            IN  /\ (k - 1 < 20 =>
                       r.volume_avg_20.kind = "nan" /\ r.volume_ratio.kind = "nan")
                /\ (k - 1 >= 20 =>
                       r.volume_avg_20 = Num(SumVolume(raw.bars, k - 20, k - 1), 20))

\* C10 amended: the window is the last min(n, 100) rows of the download;
\* volume_avg_20 of a candle is the mean volume of the 20 candles ending with
\* it, defined iff it has at least 19 predecessors in the download; its
\* volume_ratio is volume / volume_avg_20, a number iff it has at least 19
\* predecessors and that mean is not 0, and NaN otherwise.
C10_RollingIncludesCandle ==
    pc = "fetched" /\ ~df.none =>
        /\ Len(df.rows) = IF Len(raw.bars) < 100 THEN Len(raw.bars) ELSE 100
        /\ \A j \in 1..Len(df.rows) :
            LET k == RowOf(j)
                r == df.rows[j]
                total == SumVolume(raw.bars, k - 19, k)
            IN  /\ r.ts = raw.bars[k].ts
                /\ (r.volume_avg_20.kind = "num" <=> k - 1 >= 19)
                /\ (k - 1 >= 19 =>
                       r.volume_avg_20.num * 20 = total * r.volume_avg_20.den)
                /\ (r.volume_ratio.kind = "num" <=> (k - 1 >= 19 /\ total # 0))
                /\ (r.volume_ratio.kind # "num" => r.volume_ratio.kind = "nan")
                /\ (r.volume_ratio.kind = "num" =>
                       r.volume_ratio.num * total
                           = r.Volume * 20 * r.volume_ratio.den)

\* C10 witness: the candle with exactly 19 predecessors carries a ratio that
\* is a number.
C10_Witness ==
    /\ pc = "fetched"
    /\ ~df.none
    /\ \E j \in 1..Len(df.rows) :
          RowOf(j) = 20 /\ df.rows[j].volume_ratio.kind = "num"

====
